---- MODULE Spec2Model ----
(***************************************************************************)
(* Model of densify-dev/net-utils:                                         *)
(*   network/port.go    - port tiers, Port construction,                   *)
(*                        ParseAddress and parseAddressPort                *)
(*   config/client.go   - RetryConfig.Validate and RetryConfig.NewClient   *)
(*                                                                         *)
(* Go strings are sequences of one-character strings.  A uint64 is a       *)
(* triple of base-10^8 limbs, most significant first, so that the 64-bit   *)
(* width of strconv.ParseUint and of the port type is kept.                *)
(***************************************************************************)
EXTENDS Integers, Sequences, FiniteSets, TLC

VARIABLES
    pc,         \* position of the caller in the current scenario
    pi,         \* argument of NewPortForTypeRange: [kind, str, n]
    ptr,        \* *portTypeRange argument: [isNil, min, max]
    portRes,    \* (Port, error) returned by NewPortForTypeRange
    validRes,   \* result of port.IsValidForTypeRange called on a port value
    rtRes,      \* (Port, error) of the second NewPort call of a round trip
    s,          \* argument of ParseAddressForPortTypeRange
    addrRes,    \* (address, Port, error) returned by ParseAddressForPortTypeRange
    parts,      \* (addr, p, hasPort) returned by parseAddressPort inside that call
    isSetRes,   \* outcome of calling IsSet() on the Port of addrRes
    rc,         \* the RetryConfig structure
    lastValidate, \* outcome of the most recent rc.Validate(): "never", "ok", "err"
    lastOp,     \* last operation applied to rc
    validateErr,  \* error returned by the most recent rc.Validate()
    clientRes   \* (*http.Client, error) returned by the most recent rc.NewClient()

vars == <<pc, pi, ptr, portRes, validRes, rtRes, s, addrRes, parts, isSetRes,
          rc, lastValidate, lastOp, validateErr, clientRes>>

portVars == <<pi, portRes, validRes, rtRes>>
addrVars == <<s, addrRes, parts, isSetRes>>
retryVars == <<rc, lastValidate, lastOp, validateErr, clientRes>>

(***************************************************************************)
(* Bounds of the model.                                                    *)
(***************************************************************************)
MaxPortFrags == 3   \* fragments concatenated into a port string
MaxAddrFrags == 4   \* fragments concatenated into an address string
MaxDelta == 2       \* sampled neighbourhood of every tier boundary
MaxDur == 2         \* largest WaitMin / WaitMax sampled
MaxAtt == 1         \* largest MaxAttempts sampled

(***************************************************************************)
(* Go strings.                                                             *)
(***************************************************************************)
Colon == <<":">>
LeftSquareBracket == <<"[">>
RightSquareBracket == <<"]">>

Digits == <<"0", "1", "2", "3", "4", "5", "6", "7", "8", "9">>

IsDigit(c) == \E i \in 1..10 : Digits[i] = c

DigitVal(c) == (CHOOSE i \in 1..10 : Digits[i] = c) - 1

HexLetters == <<"a", "b", "c", "d", "e", "f">>
HexUpper == <<"A", "B", "C", "D", "E", "F">>

IsHex(c) ==
    \/ IsDigit(c)
    \/ \E i \in 1..6 : HexLetters[i] = c \/ HexUpper[i] = c

HexVal(c) ==
    IF IsDigit(c) THEN DigitVal(c)
    ELSE 9 + (CHOOSE i \in 1..6 : HexLetters[i] = c \/ HexUpper[i] = c)

HasPrefix(str, pre) ==
    /\ Len(str) >= Len(pre)
    /\ SubSeq(str, 1, Len(pre)) = pre

HasSuffix(str, suf) ==
    /\ Len(str) >= Len(suf)
    /\ SubSeq(str, Len(str) - Len(suf) + 1, Len(str)) = suf

TrimPrefix(str, pre) ==
    IF HasPrefix(str, pre) THEN SubSeq(str, Len(pre) + 1, Len(str)) ELSE str

TrimSuffix(str, suf) ==
    IF HasSuffix(str, suf) THEN SubSeq(str, 1, Len(str) - Len(suf)) ELSE str

\* strings.Split(str, sep) for a one-character separator
RECURSIVE SplitFrom(_, _, _, _)
SplitFrom(str, sep, i, cur) ==
    IF i > Len(str) THEN <<cur>>
    ELSE IF <<str[i]>> = sep THEN <<cur>> \o SplitFrom(str, sep, i + 1, <<>>)
    ELSE SplitFrom(str, sep, i + 1, Append(cur, str[i]))

Split(str, sep) == SplitFrom(str, sep, 1, <<>>)

\* strings.Join(elems, sep)
RECURSIVE Join(_, _)
Join(elems, sep) ==
    IF Len(elems) = 0 THEN <<>>
    ELSE IF Len(elems) = 1 THEN elems[1]
    ELSE elems[1] \o sep \o Join(Tail(elems), sep)

\* concatenation of a sequence of strings
RECURSIVE Concat(_)
Concat(frags) ==
    IF Len(frags) = 0 THEN <<>> ELSE frags[1] \o Concat(Tail(frags))

(***************************************************************************)
(* uint64 as three limbs of base 10^8, most significant first.             *)
(***************************************************************************)
Base == 10 ^ 8

U(n) == <<0, n \div Base, n % Base>>

U64Less(a, b) ==
    \/ a[1] < b[1]
    \/ a[1] = b[1] /\ a[2] < b[2]
    \/ a[1] = b[1] /\ a[2] = b[2] /\ a[3] < b[3]

U64Leq(a, b) == a = b \/ U64Less(a, b)

\* 1<<64 - 1 = 18446744073709551615
MaxUint64 == <<1844, 67440737, 9551615>>

\* maxUint64/10 + 1 = 1844674407370955162
Cutoff == <<184, 46744073, 70955162>>

\* n * 10 for n below Cutoff: the product fits in 64 bits
U64Mul10(n) ==
    LET lo  == n[3] * 10
        mid == n[2] * 10 + (lo \div Base)
        hi  == n[1] * 10 + (mid \div Base)
    IN  <<hi, mid % Base, lo % Base>>

\* n + d modulo 2^64, for a digit d
U64AddDigit(n, d) ==
    LET lo  == n[3] + d
        mid == n[2] + (lo \div Base)
        hi  == n[1] + (mid \div Base)
        sum == <<hi, mid % Base, lo % Base>>
    IN  IF U64Leq(sum, MaxUint64) THEN sum
        ELSE <<0, 0, sum[3] - (MaxUint64[3] + 1)>>

(***************************************************************************)
(* Values returned to callers.                                             *)
(***************************************************************************)
\* the nil error
NoErr == [kind |-> "nil", n |-> U(0), text |-> <<>>]

\* the nil Port interface value
NilPort == [isNil |-> TRUE, n |-> U(0)]

\* a Port interface value holding port(n)
PortOf(n) == [isNil |-> FALSE, n |-> n]

(***************************************************************************)
(* network/port.go: port tiers and Port construction                       *)
(***************************************************************************)
System == 0
Registered == 1
Dynamic == 2

MinSystem == U(0)
MaxSystem == U(1023)
MinRegistered == U(1024)
MaxRegistered == U(49151)
MinDynamic == U(49152)
MaxDynamic == U(65535)
Invalid == U(65536)

rangeOf(min, max) == [isNil |-> FALSE, min |-> min, max |-> max]

rangeOfSame(pt) == rangeOf(pt, pt)

\* a nil *portTypeRange
NilRange == [isNil |-> TRUE, min |-> System, max |-> System]

All == rangeOf(System, Dynamic)
NonSystem == rangeOf(Registered, Dynamic)
NonDynamic == rangeOf(System, Registered)

ranges_BoundarySlip ==
    [pt \in {System, Registered, Dynamic} |->
        IF pt = System THEN [min |-> MinSystem, max |-> MinRegistered]
        ELSE IF pt = Registered THEN [min |-> MinRegistered, max |-> MaxRegistered]
        ELSE [min |-> MinDynamic, max |-> MaxDynamic]]

ranges ==
    [pt \in {System, Registered, Dynamic} |->
        IF pt = System THEN [min |-> MinSystem, max |-> MaxSystem]
        ELSE IF pt = Registered THEN [min |-> MinRegistered, max |-> MaxRegistered]
        ELSE [min |-> MinDynamic, max |-> MaxDynamic]]

IsSet(p) == U64Less(p, Invalid)

IsValidForTypeRange(p, r) ==
    /\ ~r.isNil
    /\ U64Leq(ranges[r.min].min, p)
    /\ U64Leq(p, ranges[r.max].max)

IsValid(p) == IsValidForTypeRange(p, All)

IsValidForType(p, pt) == IsValidForTypeRange(p, rangeOfSame(pt))

Uint64(p) == p

\* strconv.ParseUint(str, 10, 64): the loop over the bytes of str, from byte i on
RECURSIVE ParseUintLoop(_, _, _)
ParseUintLoop(str, i, n) ==
    IF i > Len(str) THEN [n |-> n, err |-> NoErr]
    ELSE IF ~IsDigit(str[i])
        THEN [n |-> U(0), err |-> [kind |-> "strconv.ErrSyntax", n |-> U(0), text |-> str]]
    ELSE IF U64Leq(Cutoff, n)
        THEN [n |-> MaxUint64, err |-> [kind |-> "strconv.ErrRange", n |-> U(0), text |-> str]]
    ELSE LET n10 == U64Mul10(n)
             n1  == U64AddDigit(n10, DigitVal(str[i]))
         IN  IF U64Less(n1, n10)
                 THEN [n |-> MaxUint64, err |-> [kind |-> "strconv.ErrRange", n |-> U(0), text |-> str]]
             ELSE ParseUintLoop(str, i + 1, n1)

ParseUint(str) ==
    IF str = <<>>
        THEN [n |-> U(0), err |-> [kind |-> "strconv.ErrSyntax", n |-> U(0), text |-> str]]
    ELSE ParseUintLoop(str, 1, U(0))

TypeSwitch_StringCaseMissing(in) ==
    IF in.kind = "uint64" THEN [n |-> in.n, err |-> NoErr]
    ELSE [n |-> U(0), err |-> NoErr]

\* the type switch of NewPortForTypeRange: only the types string and uint64
\* themselves match a case; any other type leaves n = 0 and err = nil
TypeSwitch(in) ==
    IF in.kind = "string" THEN ParseUint(in.str)
    ELSE IF in.kind = "uint64" THEN [n |-> in.n, err |-> NoErr]
    ELSE [n |-> U(0), err |-> NoErr]

NewPortForTypeRange_NoRangeCheck(in, r) ==
    LET sw == TypeSwitch(in)
    IN  IF sw.err = NoErr THEN [p |-> PortOf(sw.n), err |-> NoErr]
        ELSE [p |-> NilPort, err |-> sw.err]

NewPortForTypeRange(in, r) ==
    LET sw == TypeSwitch(in)
    IN  IF sw.err = NoErr
            THEN IF IsValidForTypeRange(sw.n, r)
                     THEN [p |-> PortOf(sw.n), err |-> NoErr]
                 ELSE [p |-> NilPort,
                       err |-> [kind |-> "invalid port", n |-> sw.n, text |-> <<>>]]
        ELSE [p |-> NilPort, err |-> sw.err]

NewPort(in) == NewPortForTypeRange(in, All)

NewPortForType(in, pt) == NewPortForTypeRange(in, rangeOfSame(pt))

\* a PortInput of type string
StringInput(str) == [kind |-> "string", str |-> str, n |-> U(0)]

\* a PortInput of type uint64
Uint64Input(n) == [kind |-> "uint64", str |-> <<>>, n |-> n]

(***************************************************************************)
(* Decimal formatting of a uint64, as strconv.FormatUint(n, 10) does it.   *)
(***************************************************************************)
RECURSIVE FormatNat(_)
FormatNat(k) ==
    IF k < 10 THEN <<Digits[k + 1]>>
    ELSE Append(FormatNat(k \div 10), Digits[(k % 10) + 1])

RECURSIVE PadLeft(_, _)
PadLeft(str, w) == IF Len(str) >= w THEN str ELSE PadLeft(<<"0">> \o str, w)

FormatUint(n) ==
    IF n[1] # 0
        THEN FormatNat(n[1]) \o PadLeft(FormatNat(n[2]), 8) \o PadLeft(FormatNat(n[3]), 8)
    ELSE IF n[2] # 0
        THEN FormatNat(n[2]) \o PadLeft(FormatNat(n[3]), 8)
    ELSE FormatNat(n[3])

(***************************************************************************)
(* net.ParseIP: whether the string is an IPv4 dotted-decimal, IPv6 or      *)
(* IPv4-mapped IPv6 literal (the Go standard library's parser).            *)
(***************************************************************************)
\* parseIPv4Fields: four decimal fields 0..255 without leading zeros
RECURSIVE IPv4Loop(_, _, _, _, _)
IPv4Loop(str, i, val, pos, digLen) ==
    IF i > Len(str) THEN pos >= 3
    ELSE IF IsDigit(str[i])
        THEN IF digLen = 1 /\ val = 0 THEN FALSE
             ELSE LET v == val * 10 + DigitVal(str[i])
                  IN  IF v > 255 THEN FALSE
                      ELSE IPv4Loop(str, i + 1, v, pos, digLen + 1)
    ELSE IF str[i] = "."
        THEN IF i = 1 \/ i = Len(str) \/ str[i - 1] = "." THEN FALSE
             ELSE IF pos = 3 THEN FALSE
             ELSE IPv4Loop(str, i + 1, 0, pos + 1, 0)
    ELSE FALSE

parseIPv4(str) == IPv4Loop(str, 1, 0, 0, 0)

\* number of leading hexadecimal digits of str
RECURSIVE HexRun(_, _)
HexRun(str, off) ==
    IF off < Len(str) /\ IsHex(str[off + 1]) THEN HexRun(str, off + 1) ELSE off

\* the end of parseIPv6: the whole string was used, and the ellipsis is
\* present exactly when fewer than 16 bytes were parsed
IPv6Finish(rest, i, ellipsis) ==
    /\ rest = <<>>
    /\ IF i < 16 THEN ellipsis >= 0 ELSE ellipsis < 0

\* the loop of parseIPv6: i bytes parsed so far, rest still to read
RECURSIVE IPv6Loop(_, _, _)
IPv6Loop(rest, i, ellipsis) ==
    IF i >= 16 THEN IPv6Finish(rest, i, ellipsis)
    ELSE LET off == HexRun(rest, 0)
         IN  IF off > 4 \/ off = 0 THEN FALSE
             ELSE IF off < Len(rest) /\ rest[off + 1] = "."
                 THEN /\ ~(ellipsis < 0 /\ i # 12)
                      /\ i + 4 <= 16
                      /\ parseIPv4(rest)
                      /\ IPv6Finish(<<>>, i + 4, ellipsis)
             ELSE LET r1 == SubSeq(rest, off + 1, Len(rest))
                  IN  IF r1 = <<>> THEN IPv6Finish(<<>>, i + 2, ellipsis)
                      ELSE IF r1[1] # ":" \/ Len(r1) = 1 THEN FALSE
                      ELSE LET r2 == Tail(r1)
                           IN  IF r2[1] = ":"
                                   THEN IF ellipsis >= 0 THEN FALSE
                                        ELSE IF Tail(r2) = <<>>
                                            THEN IPv6Finish(<<>>, i + 2, i + 2)
                                        ELSE IPv6Loop(Tail(r2), i + 2, i + 2)
                               ELSE IPv6Loop(r2, i + 2, ellipsis)

parseIPv6(str) ==
    IF \E k \in 1..Len(str) : str[k] = "%" THEN FALSE
    ELSE IF Len(str) >= 2 /\ str[1] = ":" /\ str[2] = ":"
        THEN IF Len(str) = 2 THEN TRUE
             ELSE IPv6Loop(SubSeq(str, 3, Len(str)), 0, 0)
    ELSE IPv6Loop(str, 0, -1)

\* net.ParseIP(str) # nil: the first of '.', ':' and '%' selects the grammar
ParseIP(str) ==
    LET marks == {k \in 1..Len(str) : str[k] \in {".", ":", "%"}}
    IN  IF marks = {} THEN FALSE
        ELSE LET first == CHOOSE k \in marks : \A j \in marks : k <= j
             IN  IF str[first] = "." THEN parseIPv4(str)
                 ELSE IF str[first] = ":" THEN parseIPv6(str)
                 ELSE FALSE

(***************************************************************************)
(* network/port.go: address parsing                                        *)
(***************************************************************************)
\* strip one leading '[' and one trailing ']'
StripBrackets(addr) ==
    TrimSuffix(TrimPrefix(addr, LeftSquareBracket), RightSquareBracket)

parseAddressPort_LastSegmentIsPort(str) ==
    LET elems == Split(str, Colon)
        l == Len(elems)
    IN  IF l < 2 THEN [addr |-> StripBrackets(str), p |-> <<>>, hasPort |-> FALSE]
        ELSE [addr |-> StripBrackets(Join(SubSeq(elems, 1, l - 1), Colon)),
              p |-> elems[l], hasPort |-> TRUE]

parseAddressPort(str) ==
    LET elems == Split(str, Colon)
        l == Len(elems)
    IN  IF l < 2 THEN [addr |-> StripBrackets(str), p |-> <<>>, hasPort |-> FALSE]
        ELSE LET n == l - 2
             IN  IF \/ n = 0
                    \/ /\ HasPrefix(elems[1], LeftSquareBracket)
                       /\ HasSuffix(elems[n + 1], RightSquareBracket)
                     THEN [addr |-> StripBrackets(Join(SubSeq(elems, 1, n + 1), Colon)),
                           p |-> elems[n + 2], hasPort |-> TRUE]
                 ELSE [addr |-> StripBrackets(Join(SubSeq(elems, 1, n + 2), Colon)),
                       p |-> <<>>, hasPort |-> FALSE]

ParseAddressForPortTypeRange_KeepsAddress(str, r) ==
    LET pa == parseAddressPort(str)
    IN  IF ~ParseIP(pa.addr)
            THEN [address |-> <<>>, p |-> NilPort,
                  err |-> [kind |-> "invalid IP address", n |-> U(0), text |-> pa.addr]]
        ELSE LET np == IF pa.hasPort THEN NewPortForTypeRange(StringInput(pa.p), r)
                       ELSE [p |-> NilPort, err |-> NoErr]
             IN  [address |-> pa.addr, p |-> np.p, err |-> np.err]

ParseAddressForPortTypeRange(str, r) ==
    LET pa == parseAddressPort(str)
    IN  IF ~ParseIP(pa.addr)
            THEN [address |-> <<>>, p |-> NilPort,
                  err |-> [kind |-> "invalid IP address", n |-> U(0), text |-> pa.addr]]
        ELSE LET np == IF pa.hasPort THEN NewPortForTypeRange(StringInput(pa.p), r)
                       ELSE [p |-> NilPort, err |-> NoErr]
             IN  [address |-> IF np.err = NoErr THEN pa.addr ELSE <<>>,
                  p |-> np.p, err |-> np.err]

ParseAddress(str) == ParseAddressForPortTypeRange(str, All)

ParseAddressForPortType(str, pt) == ParseAddressForPortTypeRange(str, rangeOfSame(pt))

\* calling IsSet() on a Port interface value: a nil interface has no method
\* to dispatch to and the call panics
IsSetOnPort(p) ==
    IF p.isNil THEN "panic" ELSE IF IsSet(p.n) THEN "true" ELSE "false"

(***************************************************************************)
(* config/client.go                                                        *)
(***************************************************************************)
UpperCase == <<"A", "B", "C", "D", "E", "F", "G", "H", "I", "J", "K", "L", "M",
               "N", "O", "P", "Q", "R", "S", "T", "U", "V", "W", "X", "Y", "Z">>
LowerCase == <<"a", "b", "c", "d", "e", "f", "g", "h", "i", "j", "k", "l", "m",
               "n", "o", "p", "q", "r", "s", "t", "u", "v", "w", "x", "y", "z">>

\* strings.ToLower on ASCII text
ToLower(str) ==
    [k \in 1..Len(str) |->
        IF \E j \in 1..26 : UpperCase[j] = str[k]
            THEN LowerCase[CHOOSE j \in 1..26 : UpperCase[j] = str[k]]
        ELSE str[k]]

Empty == <<>>
DefaultPolicy == <<"d", "e", "f", "a", "u", "l", "t">>
ExponentialPolicy == <<"e", "x", "p", "o", "n", "e", "n", "t", "i", "a", "l">>
JitterPolicy == <<"j", "i", "t", "t", "e", "r">>
ConstantPolicy == <<"c", "o", "n", "s", "t">>

\* the policies map; a missing key yields the nil Backoff
policies(name) ==
    IF name = Empty THEN "rhttp.DefaultBackoff"
    ELSE IF name = DefaultPolicy THEN "rhttp.DefaultBackoff"
    ELSE IF name = ExponentialPolicy THEN "rhttp.DefaultBackoff"
    ELSE IF name = JitterPolicy THEN "rhttp.LinearJitterBackoff"
    ELSE IF name = ConstantPolicy THEN "ConstantBackoff"
    ELSE "nil"

validDurations(d1, d2, equalAllowed) ==
    LET test == IF equalAllowed THEN d2 >= d1 ELSE d2 > d1
    IN  IF ~test THEN "invalid durations" ELSE "nil"

validPositive(n) == IF n <= 0 THEN "number must be positive" ELSE "nil"

\* a RetryConfig as constructed or unmarshalled: the unexported fields are zero
NewRetryConfig(wmin, wmax, att, pol) ==
    [WaitMin |-> wmin, WaitMax |-> wmax, MaxAttempts |-> att, Policy |-> pol,
     backoff |-> "nil", isValid |-> FALSE]

Validate_StickyValid(c) ==
    LET e1 == validDurations(0, c.WaitMin, FALSE)
        e2 == validDurations(c.WaitMin, c.WaitMin, TRUE)
        e3 == validPositive(c.MaxAttempts)
        b  == policies(ToLower(c.Policy))
    IN  IF e1 # "nil" THEN [rc |-> c, err |-> e1]
        ELSE IF e2 # "nil" THEN [rc |-> c, err |-> e2]
        ELSE IF e3 # "nil" THEN [rc |-> c, err |-> e3]
        ELSE IF b = "nil"
            THEN [rc |-> [c EXCEPT !.backoff = b], err |-> "invalid backoff policy"]
        ELSE [rc |-> [c EXCEPT !.backoff = b, !.isValid = TRUE], err |-> "nil"]

\* rc.Validate() on a non-nil rc: the updated structure and the error
Validate(c) ==
    LET e1 == validDurations(0, c.WaitMin, FALSE)
        e2 == validDurations(c.WaitMin, c.WaitMin, TRUE)
        e3 == validPositive(c.MaxAttempts)
        b  == policies(ToLower(c.Policy))
    IN  IF e1 # "nil" THEN [rc |-> [c EXCEPT !.isValid = FALSE], err |-> e1]
        ELSE IF e2 # "nil" THEN [rc |-> [c EXCEPT !.isValid = FALSE], err |-> e2]
        ELSE IF e3 # "nil" THEN [rc |-> [c EXCEPT !.isValid = FALSE], err |-> e3]
        ELSE IF b = "nil"
            THEN [rc |-> [c EXCEPT !.backoff = b, !.isValid = FALSE],
                  err |-> "invalid backoff policy"]
        ELSE [rc |-> [c EXCEPT !.backoff = b, !.isValid = TRUE], err |-> "nil"]

\* the nil *http.Client
NilClient ==
    [isNil |-> TRUE, RetryWaitMin |-> 0, RetryWaitMax |-> 0, RetryMax |-> 0,
     Backoff |-> "nil"]

\* rc.NewClient(rt, logger) on a non-nil rc
NewClient(c, logger) ==
    IF ~c.isValid
        THEN [client |-> NilClient, err |-> "retry configuration is not valid"]
    ELSE IF logger \notin {"nil", "rhttp.Logger", "rhttp.LeveledLogger"}
        THEN [client |-> NilClient, err |-> "invalid logger type"]
    ELSE [client |-> [isNil |-> FALSE, RetryWaitMin |-> c.WaitMin,
                      RetryWaitMax |-> c.WaitMax, RetryMax |-> c.MaxAttempts,
                      Backoff |-> c.backoff],
          err |-> "nil"]

(***************************************************************************)
(* Inputs.                                                                 *)
(***************************************************************************)
\* all strings made of at most k fragments
StringsOf(frags, k) ==
    {Concat(f) : f \in UNION {[1..j -> frags] : j \in 0..k}}

PortFrags ==
    {<<"0">>, <<"5">>, <<"6">>, <<"a">>, <<"-">>,
     <<"6", "5", "5", "3">>,
     <<"1", "8", "4", "4", "6", "7", "4", "4", "0", "7", "3", "7", "0", "9", "5",
       "5", "1", "6", "1">>}

PortStrings == StringsOf(PortFrags, MaxPortFrags)

TierBoundaries == {0, 1023, 1024, 49151, 49152, 65535, 65536}

PortValues ==
    {U(b + d) : b \in TierBoundaries, d \in 0..MaxDelta}
    \cup {U(b - d) : b \in TierBoundaries \ {0}, d \in 0..MaxDelta}
    \cup {U(80), U(70000), MaxUint64}

\* kinds of PortInput: the types string and uint64, and types that only have
\* them as underlying type (the package's own port type among them)
PortInputs ==
    {[kind |-> k, str |-> str, n |-> U(0)] : k \in {"string", "~string"}, str \in PortStrings}
    \cup {[kind |-> k, str |-> <<>>, n |-> n] : k \in {"uint64", "port"}, n \in PortValues}

\* the ranges a caller can obtain, and nil
PtrValues ==
    {All, NonSystem, NonDynamic, NilRange}
    \cup {rangeOfSame(pt) : pt \in {System, Registered, Dynamic}}

AddrFrags ==
    {<<"1", ".", "2", ".", "3", ".", "4">>, <<"1", ":", ":", "1">>,
     <<"[">>, <<"]">>, <<":">>, <<"8", "0">>, <<"9", "9", "9", "9", "9">>}

AddrStrings == StringsOf(AddrFrags, MaxAddrFrags)

AddrPtrValues == {All, NonSystem, NilRange}

Durations == -1..MaxDur

Attempts == -1..MaxAtt

PolicyInputs ==
    {Empty, DefaultPolicy, <<"D", "e", "f", "a", "u", "l", "t">>, ExponentialPolicy,
     JitterPolicy, <<"J", "I", "T", "T", "E", "R">>, ConstantPolicy,
     <<"l", "i", "n", "e", "a", "r">>}

Loggers == {"nil", "rhttp.Logger", "rhttp.LeveledLogger", "other"}

(***************************************************************************)
(* Values of the variables a scenario does not use.                        *)
(***************************************************************************)
NoPortRes == [p |-> NilPort, err |-> NoErr]
NoRtRes == [arg |-> [kind |-> "string", str |-> <<>>, n |-> U(0)], p |-> NilPort, err |-> NoErr]
NoAddrRes == [address |-> <<>>, p |-> NilPort, err |-> NoErr]
NoParts == [addr |-> <<>>, p |-> <<>>, hasPort |-> FALSE]
NoClientRes == [client |-> NilClient, err |-> "nil"]

PortIdle ==
    /\ pi = StringInput(<<>>) /\ portRes = NoPortRes
    /\ validRes = FALSE /\ rtRes = NoRtRes

AddrIdle ==
    /\ s = <<>> /\ addrRes = NoAddrRes /\ parts = NoParts /\ isSetRes = "none"

RetryIdle ==
    /\ rc = NewRetryConfig(0, 0, 0, Empty) /\ lastValidate = "never"
    /\ lastOp = "none" /\ validateErr = "nil" /\ clientRes = NoClientRes

(***************************************************************************)
(* Scenario 1: port construction and classification.                       *)
(***************************************************************************)
InitPort ==
    /\ pc = "start"
    /\ pi \in PortInputs
    /\ ptr \in PtrValues
    /\ portRes = NoPortRes /\ validRes = FALSE /\ rtRes = NoRtRes
    /\ AddrIdle /\ RetryIdle

NewPortForTypeRangeCall ==
    /\ pc = "start"
    /\ portRes' = NewPortForTypeRange(pi, ptr)
    /\ pc' = "newport"
    /\ UNCHANGED <<pi, ptr, validRes, rtRes, addrVars, retryVars>>

\* p.IsValidForTypeRange(ptr) on a value p of the port type
IsValidForTypeRangeCall ==
    /\ pc = "start"
    /\ pi.kind = "port"
    /\ validRes' = IsValidForTypeRange(pi.n, ptr)
    /\ pc' = "isvalid"
    /\ UNCHANGED <<pi, ptr, portRes, rtRes, addrVars, retryVars>>

\* NewPort on what Uint64() of a Port obtained from NewPort returns, passed
\* back as its decimal string or as a uint64
RoundTripCall ==
    /\ pc = "newport"
    /\ ptr = All
    /\ ~portRes.p.isNil
    /\ \E asString \in BOOLEAN :
          LET arg == IF asString THEN StringInput(FormatUint(Uint64(portRes.p.n)))
                     ELSE Uint64Input(Uint64(portRes.p.n))
              r == NewPort(arg)
          IN  rtRes' = [arg |-> arg, p |-> r.p, err |-> r.err]
    /\ pc' = "roundtrip"
    /\ UNCHANGED <<pi, ptr, portRes, validRes, addrVars, retryVars>>

NextPort ==
    \/ NewPortForTypeRangeCall
    \/ IsValidForTypeRangeCall
    \/ RoundTripCall

SpecPort == InitPort /\ [][NextPort]_vars

(***************************************************************************)
(* Scenario 2: address parsing.                                            *)
(***************************************************************************)
InitAddr ==
    /\ pc = "start"
    /\ s \in AddrStrings
    /\ ptr \in AddrPtrValues
    /\ addrRes = NoAddrRes /\ parts = NoParts /\ isSetRes = "none"
    /\ PortIdle /\ RetryIdle

ParseAddressCall ==
    /\ pc = "start"
    /\ parts' = parseAddressPort(s)
    /\ addrRes' = ParseAddressForPortTypeRange(s, ptr)
    /\ pc' = "parsed"
    /\ UNCHANGED <<s, ptr, isSetRes, portVars, retryVars>>

\* the caller calls IsSet() on the Port of a successful call
IsSetCall ==
    /\ pc = "parsed"
    /\ addrRes.err = NoErr
    /\ isSetRes' = IsSetOnPort(addrRes.p)
    /\ pc' = "isset"
    /\ UNCHANGED <<s, ptr, addrRes, parts, portVars, retryVars>>

NextAddr ==
    \/ ParseAddressCall
    \/ IsSetCall

SpecAddr == InitAddr /\ [][NextAddr]_vars

(***************************************************************************)
(* Scenario 3: a RetryConfig that is assigned, validated and used.         *)
(***************************************************************************)
InitRetry ==
    /\ pc = "retry"
    /\ ptr = All
    /\ \E wmin \in Durations, wmax \in Durations, att \in Attempts, pol \in PolicyInputs :
          rc = NewRetryConfig(wmin, wmax, att, pol)
    /\ lastValidate = "never"
    /\ lastOp = "none"
    /\ validateErr = "nil"
    /\ clientRes = NoClientRes
    /\ PortIdle /\ AddrIdle

\* the owner assigns the exported fields
SetFields ==
    /\ \E wmin \in Durations, wmax \in Durations, att \in Attempts, pol \in PolicyInputs :
          rc' = [rc EXCEPT !.WaitMin = wmin, !.WaitMax = wmax,
                           !.MaxAttempts = att, !.Policy = pol]
    /\ lastOp' = "SetFields"
    /\ validateErr' = "nil"
    /\ clientRes' = NoClientRes
    /\ UNCHANGED <<pc, ptr, lastValidate, portVars, addrVars>>

ValidateCall ==
    /\ LET r == Validate(rc)
       IN  /\ rc' = r.rc
           /\ validateErr' = r.err
           /\ lastValidate' = IF r.err = "nil" THEN "ok" ELSE "err"
    /\ lastOp' = "Validate"
    /\ clientRes' = NoClientRes
    /\ UNCHANGED <<pc, ptr, portVars, addrVars>>

NewClientCall ==
    /\ \E logger \in Loggers : clientRes' = NewClient(rc, logger)
    /\ lastOp' = "NewClient"
    /\ validateErr' = "nil"
    /\ UNCHANGED <<pc, ptr, rc, lastValidate, portVars, addrVars>>

NextRetry ==
    \/ SetFields
    \/ ValidateCall
    \/ NewClientCall

SpecRetry == InitRetry /\ [][NextRetry]_vars

(***************************************************************************)
(* Vocabulary of the properties, stated without the operators above.       *)
(***************************************************************************)
\* the tier table of the documentation
TierTable ==
    <<[min |-> 0, max |-> 1023], [min |-> 1024, max |-> 49151],
      [min |-> 49152, max |-> 65535]>>

\* the value of a uint64 that is below 10^8, -1 for larger ones
SmallValue(n) == IF n[1] = 0 /\ n[2] = 0 THEN n[3] ELSE -1

\* n belongs to tier t (0, 1 or 2)
InTier(n, t) ==
    /\ SmallValue(n) >= TierTable[t + 1].min
    /\ SmallValue(n) <= TierTable[t + 1].max

\* n belongs to some tier between r.min and r.max; never for the nil range
InTierRange(n, r) ==
    /\ ~r.isNil
    /\ \E t \in r.min..r.max : InTier(n, t)

RECURSIVE StripZeros(_)
StripZeros(str) ==
    IF Len(str) > 1 /\ str[1] = "0" THEN StripZeros(Tail(str)) ELSE str

MaxUint64Decimal ==
    <<"1", "8", "4", "4", "6", "7", "4", "4", "0", "7", "3", "7", "0", "9", "5",
      "5", "1", "6", "1", "5">>

\* a and b are digit strings of the same length and a <= b
DecimalLeq(a, b) ==
    \/ a = b
    \/ \E k \in 1..Len(a) :
          /\ DigitVal(a[k]) < DigitVal(b[k])
          /\ \A j \in 1..(k - 1) : a[j] = b[j]

\* str is a non-negative base-10 integer representable in 64 bits
IsDecimalUint64(str) ==
    /\ str # <<>>
    /\ \A k \in 1..Len(str) : IsDigit(str[k])
    /\ LET t == StripZeros(str)
       IN  \/ Len(t) < 20
           \/ Len(t) = 20 /\ DecimalLeq(t, MaxUint64Decimal)

RECURSIVE NatOfDigits(_)
NatOfDigits(d) ==
    IF d = <<>> THEN 0
    ELSE NatOfDigits(SubSeq(d, 1, Len(d) - 1)) * 10 + DigitVal(d[Len(d)])

\* the number a decimal string denotes, read eight digits at a time
DecimalValue(str) ==
    LET t == PadLeft(StripZeros(str), 24)
    IN  <<NatOfDigits(SubSeq(t, 1, 8)), NatOfDigits(SubSeq(t, 9, 16)),
          NatOfDigits(SubSeq(t, 17, 24))>>

\* positions of the colons of str
ColonsOf(str) == {k \in 1..Len(str) : str[k] = ":"}

LastColon(str) == CHOOSE k \in ColonsOf(str) : \A j \in ColonsOf(str) : j <= k

\* str has exactly two colon-delimited segments, or its first segment starts
\* with '[' and its second-to-last segment ends with ']'
PortPattern(str) ==
    /\ ColonsOf(str) # {}
    /\ \/ Cardinality(ColonsOf(str)) = 1
       \/ /\ str[1] = "["
          /\ LastColon(str) > 1
          /\ str[LastColon(str) - 1] = "]"

AfterLastColon(str) == SubSeq(str, LastColon(str) + 1, Len(str))

BeforeLastColon(str) == SubSeq(str, 1, LastColon(str) - 1)

\* str with one leading '[' and one trailing ']' removed
Unbracketed(str) ==
    LET a == IF Len(str) > 0 /\ str[1] = "[" THEN Tail(str) ELSE str
    IN  IF Len(a) > 0 /\ a[Len(a)] = "]" THEN SubSeq(a, 1, Len(a) - 1) ELSE a

Returned == pc \in {"parsed", "isset"}

(***************************************************************************)
(* Properties.                                                             *)
(***************************************************************************)
\* C1: ParseAddressForPortTypeRange recognises a port segment (the text after
\* the last ':') exactly when the input has two colon-delimited segments or
\* its first segment starts with '[' and its second-to-last ends with ']';
\* otherwise the whole input is the address, no port is returned and no
\* port error is raised.
C1_PortSegmentOnlyWhenUnambiguous ==
    Returned =>
        /\ parts.hasPort <=> PortPattern(s)
        /\ parts.hasPort => parts.p = AfterLastColon(s)
        /\ ~PortPattern(s) =>
              /\ parts.addr = Unbracketed(s)
              /\ addrRes.p.isNil
              /\ addrRes.err.kind \in {"nil", "invalid IP address"}
              /\ addrRes.err.kind = "nil" => addrRes.address = Unbracketed(s)
              /\ addrRes.err.kind = "invalid IP address" =>
                    addrRes.err.text = Unbracketed(s)

\* a bare IPv6 address whose last segment looks like a port was accepted whole
C1_Witness ==
    /\ pc = "parsed"
    /\ s = <<"1", ":", ":", "1", ":", "8", "0">>
    /\ addrRes.err = NoErr
    /\ addrRes.address = s
    /\ addrRes.p.isNil

\* C2: IsValidForTypeRange(p, r) is true iff p belongs to some tier t with
\* r.min <= t <= r.max of the table System=[0,1023], Registered=[1024,49151],
\* Dynamic=[49152,65535]; it is false for the nil range and for p >= 65536.
C2_ValidIffInSomeTierOfRange ==
    pc = "isvalid" =>
        /\ validRes <=> InTierRange(pi.n, ptr)
        /\ ptr.isNil => ~validRes
        /\ U64Leq(U(65536), pi.n) => ~validRes
        /\ (pi.n \in {U(0), U(1023)} /\ ~ptr.isNil) => (validRes <=> ptr.min = 0)
        /\ (pi.n \in {U(1024), U(49151)} /\ ~ptr.isNil) =>
              (validRes <=> (ptr.min <= 1 /\ ptr.max >= 1))
        /\ (pi.n \in {U(49152), U(65535)} /\ ~ptr.isNil) => (validRes <=> ptr.max = 2)

\* the first registered port is valid for the Registered tier
C2_Witness ==
    /\ pc = "isvalid"
    /\ pi.n = U(1024)
    /\ ptr = rangeOfSame(Registered)
    /\ validRes

\* C3: NewPortForTypeRange on a string or a uint64 returns exactly one of a
\* Port and an error: a parse error for a string that is not a base-10
\* integer representable in 64 bits, "invalid port N" for a value N outside
\* the range (every value for the nil range), the Port of N otherwise.
C3_PortOrError ==
    (pc \in {"newport", "roundtrip"} /\ pi.kind \in {"string", "uint64"}) =>
        /\ portRes.p.isNil <=> portRes.err # NoErr
        /\ IF pi.kind = "string" /\ ~IsDecimalUint64(pi.str)
               THEN /\ portRes.err.kind \in {"strconv.ErrSyntax", "strconv.ErrRange"}
                    /\ portRes.p.isNil
           ELSE LET N == IF pi.kind = "string" THEN DecimalValue(pi.str) ELSE pi.n
                IN  IF InTierRange(N, ptr)
                        THEN portRes = [p |-> PortOf(N), err |-> NoErr]
                    ELSE /\ portRes.p.isNil
                         /\ portRes.err.kind = "invalid port"
                         /\ portRes.err.n = N

\* the decimal string of 2^64 was rejected by the parser
C3_Witness ==
    /\ pc = "newport"
    /\ pi.kind = "string"
    /\ pi.str = SubSeq(MaxUint64Decimal, 1, 19) \o <<"6">>
    /\ portRes.err.kind = "strconv.ErrRange"
    /\ portRes.p.isNil

\* C4: ParseAddressForPortTypeRange returns no partial result: with an error
\* the address is empty and the Port is nil; without one the address is an
\* IP literal and a recognised port lies in the requested range.
C4_NoPartialResult ==
    Returned =>
        /\ addrRes.err # NoErr => (addrRes.address = <<>> /\ addrRes.p.isNil)
        /\ addrRes.err = NoErr =>
              /\ ParseIP(addrRes.address)
              /\ PortPattern(s) =>
                    (~addrRes.p.isNil /\ InTierRange(addrRes.p.n, ptr))

\* a valid address followed by a port outside every tier
C4_Witness ==
    /\ pc = "parsed"
    /\ s = <<"1", ".", "2", ".", "3", ".", "4", ":", "9", "9", "9", "9", "9">>
    /\ addrRes.err.kind = "invalid port"
    /\ addrRes.address = <<>>
    /\ addrRes.p.isNil

\* C5: when ParseAddress succeeds without a port segment, IsSet() on the
\* returned Port yields false.
C5_IsSetAgreesWithNoPort ==
    (pc = "isset" /\ ptr = All /\ ~PortPattern(s)) => isSetRes = "false"

\* C6: Validate returns no error iff WaitMin > 0, WaitMin <= WaitMax,
\* MaxAttempts > 0 and the lower-cased Policy is one of "", "default",
\* "exponential", "jitter", "const"; "" selects the backoff of "default".
C6_ValidateAcceptsExactlyValidConfigs ==
    lastOp = "Validate" =>
        /\ validateErr = "nil" <=>
              /\ rc.WaitMin > 0
              /\ rc.WaitMin <= rc.WaitMax
              /\ rc.MaxAttempts > 0
              /\ ToLower(rc.Policy) \in
                    {Empty, DefaultPolicy, ExponentialPolicy, JitterPolicy, ConstantPolicy}
        /\ (validateErr = "nil" /\ rc.Policy = Empty) =>
              rc.backoff = policies(DefaultPolicy)

\* C7: NewClient returns an error and no client unless the most recent
\* Validate call succeeded, and a client it returns carries the WaitMin,
\* WaitMax, MaxAttempts and backoff of the config.
C7_NewClientNeedsLastValidateOk ==
    lastOp = "NewClient" =>
        /\ lastValidate # "ok" => (clientRes.err # "nil" /\ clientRes.client.isNil)
        /\ ~clientRes.client.isNil =>
              /\ lastValidate = "ok"
              /\ clientRes.err = "nil"
              /\ clientRes.client.RetryWaitMin = rc.WaitMin
              /\ clientRes.client.RetryWaitMax = rc.WaitMax
              /\ clientRes.client.RetryMax = rc.MaxAttempts
              /\ clientRes.client.Backoff = rc.backoff

\* NewClient was refused after a failed Validate that followed a successful one
C7_Witness ==
    /\ lastOp = "NewClient"
    /\ lastValidate = "err"
    /\ rc.backoff # "nil"
    /\ clientRes.err = "retry configuration is not valid"
    /\ clientRes.client.isNil

\* C8: NewPort applied to the decimal string of p.Uint64(), or to p.Uint64()
\* itself, succeeds with a Port of the same Uint64(), for every Port p that
\* NewPort returned.
C8_RoundTrip ==
    pc = "roundtrip" =>
        /\ rtRes.err = NoErr
        /\ ~rtRes.p.isNil
        /\ Uint64(rtRes.p.n) = Uint64(portRes.p.n)
        /\ rtRes.p.n = portRes.p.n

\* the largest port went through its decimal string and came back
C8_Witness ==
    /\ pc = "roundtrip"
    /\ portRes.p.n = U(65535)
    /\ rtRes.arg.kind = "string"
    /\ rtRes.arg.str = <<"6", "5", "5", "3", "5">>
    /\ rtRes.p.n = U(65535)

\* the number an input denotes, whatever its type
Denotes(in) == IF in.kind \in {"string", "~string"} THEN DecimalValue(in.str) ELSE in.n

DenotesNumber(in) == in.kind \in {"string", "~string"} => IsDecimalUint64(in.str)

\* C9: for every input the PortInput constraint admits that denotes n, and
\* every non-nil range r, NewPortForTypeRange succeeds iff n lies in r, and
\* the Port it returns holds n.
C9_EveryPortInputIsRead ==
    (pc = "newport" /\ ~ptr.isNil /\ DenotesNumber(pi)) =>
        /\ portRes.err = NoErr <=> InTierRange(Denotes(pi), ptr)
        /\ portRes.err = NoErr => portRes.p = PortOf(Denotes(pi))

\* the address component of the input, brackets included
AddressComponent(str) == IF PortPattern(str) THEN BeforeLastColon(str) ELSE str

\* C10: ParseAddress succeeds only when the address component is not
\* bracketed or carries both '[' and ']'; a port is returned with an IPv6
\* address only when the address was enclosed by both.
C10_BracketsComeInPairs ==
    (Returned /\ ptr = All /\ addrRes.err = NoErr) =>
        LET comp == AddressComponent(s)
            left == Len(comp) > 0 /\ comp[1] = "["
            right == Len(comp) > 0 /\ comp[Len(comp)] = "]"
        IN  /\ left <=> right
            /\ (~addrRes.p.isNil /\ ColonsOf(addrRes.address) # {}) => (left /\ right)

====
